---- MODULE Spec2Model ----
(***************************************************************************)
(* Model of node/adapter/netns.py: provisioning and tear-down of the veth  *)
(* pair that connects a container's network namespace to the host.         *)
(*                                                                         *)
(* The program's own state is the position of the running operation (pc),  *)
(* its local variables (frame) and the uuid clock.  Everything else is the *)
(* host state the shell commands read and change: the namespace registry   *)
(* /var/run/netns, the interfaces and routes of every network namespace,   *)
(* and the network namespace the process is currently in.                  *)
(***************************************************************************)
EXTENDS Integers, Sequences, FiniteSets, TLC

\* ------------------------------------------------------------------ bounds
\* Number of uuid1() calls (set_up_endpoint calls that pass the assertion).
MaxEndpoints == 2
\* Number of operations called in one behaviour.
MaxOps == 3
\* Number of commands that fail for a reason outside the modelled host state
\* (permissions, resources) in one behaviour.
MaxEnvFailures == 1

\* --------------------------------------------------------- module constants
VETH_NAME == <<"e", "t", "h", "1">>
ROOT_NETNS == 1
PROC_ALIAS == "proc_host"
IF_PREFIX == <<"c", "a", "l", "i">>
TMP_PREFIX == <<"t", "m", "p">>
\* ep_id[:11]
IdPrefixLen == 11
\* with Namespace(..., proc="/proc_host")
SCOPE_PROC == "proc_host"
\* ln -s /proc/%s/ns/net in ensure_namespace_named
NAMED_PROC == "proc"

\* Python's None, where an address is expected.
None == [isIPAddress |-> FALSE, version |-> 0, addr |-> "None"]

\* Prefix lengths of a subnet the address belongs to, in the place of
\* PREFIX_LEN.
SUBNET_LEN(version) == CASE version = 4 -> 24 [] version = 6 -> 64 [] OTHER -> 0

\* PREFIX_LEN = {4: 32, 6: 128}; 0 stands for a missing key.
PREFIX_LEN(version) == CASE version = 4 -> 32 [] version = 6 -> 128 [] OTHER -> 0

\* ------------------------------------------------------------------ inputs
\* netaddr.IPAddress values, and one value that is no IPAddress.
IP4 == [isIPAddress |-> TRUE, version |-> 4, addr |-> "10.0.0.5"]
IP6 == [isIPAddress |-> TRUE, version |-> 6, addr |-> "fd80::5"]
NotAnIP == [isIPAddress |-> FALSE, version |-> 0, addr |-> "10.0.0.5"]
Addresses == {IP4, IP6}
IpInputs == Addresses \cup {NotAnIP}

\* next_hop_ips dictionaries {version: IPAddress}: one with both versions,
\* one without an entry for version 4.
NH4 == [isIPAddress |-> TRUE, version |-> 4, addr |-> "10.0.0.1"]
NH6 == [isIPAddress |-> TRUE, version |-> 6, addr |-> "fd80::1"]
NextHopDicts == { [v \in {4, 6} |-> IF v = 4 THEN NH4 ELSE NH6],
                  [v \in {6} |-> NH6] }

\* Process ids of containers, as seen by the host.
ContainerPids == {2, 3}
Pids == {ROOT_NETNS} \cup ContainerPids
VethNames == {VETH_NAME}
ProcRoots == {"proc_host", "proc"}

\* Network namespaces: the host's, the agent container's, two containers'.
RootNs == "root"
AgentNs == "agent"
NoNs == "none"

\* ------------------------------------------------------------------- state
VARIABLES
    home,      \* the namespace the process was started in
    conf,      \* the caller's configuration: in_container, proc_alias,
               \* next_hop_ips, veth_name
    cur,       \* the namespace the process is in now (setns is process-wide)
    dir,       \* /var/run/netns exists
    netns,     \* the links in /var/run/netns: [name, target]
    ifs,       \* interfaces of all namespaces
    routes,    \* routes of all namespaces
    npairs,    \* veth pairs created so far (numbers the hardware addresses)
    clock,     \* uuid module's last timestamp, 15 hex digits
    nuuid,     \* uuid1() calls so far
    nops,      \* operations called so far
    nenv,      \* commands that failed for an outside reason so far
    pc,        \* position of the running operation, "idle" between operations
    frame,     \* arguments and locals of the running (or last) operation
    log,       \* commands issued by the running (or last) operation
    result,    \* how the last operation ended, NoResult while one runs
    returned,  \* endpoints returned by set_up_endpoint so far
    snapshot,  \* the arguments of the last direct add_ip_to_interface call
               \* and the interfaces as they were when it was called
    parked     \* the threads that are not running: their pc, frame, log,
               \* result and, where setns is per thread, their namespace

vars == <<home, conf, cur, dir, netns, ifs, routes, npairs, clock, nuuid,
          nops, nenv, pc, frame, log, result, returned, snapshot, parked>>

host == <<dir, netns, ifs, routes, npairs>>

\* ------------------------------------------------- proc filesystem (host)
\* The network namespace /<root>/<pid>/ns/net names.  /proc_host is the
\* host's proc; /proc is the process's own proc, which is the host's when
\* the process runs on the host and the agent container's otherwise.
HostView(pid) == CASE pid = 1 -> RootNs
                   [] pid = 2 -> "c1"
                   [] pid = 3 -> "c2"
                   [] OTHER -> NoNs

OwnView(pid) == IF home = RootNs THEN HostView(pid)
                ELSE CASE pid = 1 -> AgentNs
                       [] pid = 2 -> AgentNs
                       [] OTHER -> NoNs

Resolve(root, pid) == IF root = "proc_host" THEN HostView(pid) ELSE OwnView(pid)

\* ------------------------------------------------------------- uuid.uuid1
\* A uuid1 is built from a 60-bit timestamp (15 hex digits; clock[k] is the
\* digit of weight 16^(k-1)), kept strictly increasing within the process,
\* and from the clock sequence and node, which do not change here.
TsDigits == 15
Hex == <<"0", "1", "2", "3", "4", "5", "6", "7",
         "8", "9", "a", "b", "c", "d", "e", "f">>
\* Digit positions at which the modelled clock advances between two calls.
TickDigits == {1, 9}

\* The digits of weight 16^lo .. 16^hi, most significant first, as "%x".
HexField(ts, hi, lo) == [i \in 1..(hi - lo + 1) |-> Hex[ts[hi - i + 2] + 1]]

ClockSeqNode == <<"8", "0", "0", "0">> \o [i \in 1..12 |-> "0"]

\* UUID.hex: time_low, time_mid, version and time_hi, clock_seq, node.
UuidHex(ts) == HexField(ts, 7, 0) \o HexField(ts, 11, 8) \o <<"1">>
               \o HexField(ts, 14, 12) \o ClockSeqNode

\* The timestamps a uuid1() call may take when the last one was ts: the
\* first call of the process reads the time, a later one finds it advanced
\* by one tick or by 16^8 ticks.
Uuid1Timestamps(ts, n) ==
    { [ts EXCEPT ![k] = @ + 1] :
        k \in {j \in TickDigits : ts[j] < 15 /\ (n = 0 => j = 1)} }

\* s[:n]
Take(s, n) == SubSeq(s, 1, IF n < Len(s) THEN n ELSE Len(s))

\* iface = IF_PREFIX + ep_id[:11]
IfaceName(ep_id) == IF_PREFIX \o Take(ep_id, IdPrefixLen)
\* iface_tmp = "tmp" + ep_id[:11]
IfaceTmpName(ep_id) == TMP_PREFIX \o Take(ep_id, IdPrefixLen)

\* --------------------------------------------------------- host commands
\* Each command is given the namespace it runs in.  <Cmd>Ok says whether
\* the command exits 0 in the present host state; <Cmd> is the host state
\* it leaves when it does.

IfsIn(ns, name) == {i \in ifs : i.ns = ns /\ i.name = name}
HasIf(ns, name) == IfsIn(ns, name) # {}

\* ln -s <target> /var/run/netns/<name>: fails when the name is taken.
LnOk(name) == dir /\ \A l \in netns : l.name # name
Ln(root, pid) == netns \cup {[name |-> pid, target |-> <<root, pid>>]}

\* os.path.islink("/var/run/netns/<name>")
IsLink(name) == \E l \in netns : l.name = name

\* The namespace "ip link set X netns <pid>" moves X to: the registry entry
\* of that name when it can be opened, the process of that pid otherwise.
NetnsArg(pid) ==
    LET named == {l \in netns : l.name = pid
                                 /\ Resolve(l.target[1], l.target[2]) # NoNs}
    IN  IF named # {}
        THEN LET l == CHOOSE l \in named : TRUE
             IN  Resolve(l.target[1], l.target[2])
        ELSE OwnView(pid)

\* ip link add A type veth peer name B
LinkAddOk(ns, a, b) == a # b /\ ~HasIf(ns, a) /\ ~HasIf(ns, b)
LinkAdd(ns, a, b) ==
    ifs \cup { [name |-> a, ns |-> ns, up |-> FALSE, addrs |-> {},
                mac |-> <<npairs + 1, 1>>],
               [name |-> b, ns |-> ns, up |-> FALSE, addrs |-> {},
                mac |-> <<npairs + 1, 2>>] }

\* ip link set X up
LinkUpOk(ns, name) == HasIf(ns, name)
LinkUp(ns, name) ==
    {IF i.ns = ns /\ i.name = name THEN [i EXCEPT !.up = TRUE] ELSE i : i \in ifs}

\* ip link set X netns T: the interface arrives down and without addresses.
LinkMoveOk(ns, name, to) ==
    /\ HasIf(ns, name)
    /\ to # NoNs
    /\ to # ns => ~HasIf(to, name)
LinkMove(ns, name, to) ==
    IF to = ns THEN ifs
    ELSE {IF i.ns = ns /\ i.name = name
          THEN [i EXCEPT !.ns = to, !.up = FALSE, !.addrs = {}] ELSE i : i \in ifs}
RoutesAfterMove(ns, name, to) ==
    IF to = ns THEN routes ELSE {r \in routes : ~(r.ns = ns /\ r.dev = name)}

\* ip link set dev X name Y
LinkRenameOk(ns, old, new) == HasIf(ns, old) /\ (new # old => ~HasIf(ns, new))
LinkRename(ns, old, new) ==
    {IF i.ns = ns /\ i.name = old THEN [i EXCEPT !.name = new] ELSE i : i \in ifs}

\* ip link delete X: a veth goes together with its peer, wherever that is.
LinkDeleteOk(ns, name) == HasIf(ns, name)
LinkDelete(ns, name) ==
    LET gone == {i \in ifs : \E d \in IfsIn(ns, name) : i.mac[1] = d.mac[1]}
    IN  ifs \ gone
RoutesAfterDelete(ns, name) ==
    LET gone == {i \in ifs : \E d \in IfsIn(ns, name) : i.mac[1] = d.mac[1]}
    IN  {r \in routes : \A g \in gone : ~(r.ns = g.ns /\ r.dev = g.name)}

\* The IPNetwork ip/len.
IPNet(ip, len) == [addr |-> ip.addr, version |-> ip.version, len |-> len]

\* ip -V addr add A/L dev X
AddrAddOk(ns, net, dev) ==
    HasIf(ns, dev) /\ \A i \in IfsIn(ns, dev) : net \notin i.addrs
AddrAdd(ns, net, dev) ==
    {IF i.ns = ns /\ i.name = dev THEN [i EXCEPT !.addrs = @ \cup {net}] ELSE i
        : i \in ifs}

\* ip -V addr flush dev X, in the place of addr del: every address goes.
AddrFlush(ns, net, dev) ==
    {IF i.ns = ns /\ i.name = dev THEN [i EXCEPT !.addrs = {}] ELSE i
        : i \in ifs}

\* ip -V addr del A/L dev X
AddrDelOk(ns, net, dev) ==
    HasIf(ns, dev) /\ \A i \in IfsIn(ns, dev) : net \in i.addrs
AddrDel(ns, net, dev) ==
    {IF i.ns = ns /\ i.name = dev THEN [i EXCEPT !.addrs = @ \ {net}] ELSE i
        : i \in ifs}

\* ip -V route replace DST [via GW] dev X: the device must be up, and a
\* gateway must be reachable over it.
RouteReplaceOk(ns, dst, via, dev) ==
    /\ \E i \in IfsIn(ns, dev) : i.up
    /\ via # "" =>
          \E r \in routes : r.ns = ns /\ r.dev = dev /\ r.dst = via
RouteReplace(ns, version, dst, via, dev) ==
    {r \in routes : ~(r.ns = ns /\ r.version = version /\ r.dst = dst)}
    \cup {[ns |-> ns, version |-> version, dst |-> dst, via |-> via,
           dev |-> dev]}

\* ip link show X | grep ether | awk '{print $2}': the exit status is awk's,
\* so an absent interface yields empty output, not a failure.
LinkShowEther(ns, dev) ==
    IF HasIf(ns, dev) THEN (CHOOSE i \in IfsIn(ns, dev) : TRUE).mac ELSE <<>>

\* --------------------------------------------------------------- Endpoint
\* datastore.Endpoint(ep_id, state, mac): empty prefix sets, no gateways.
Endpoint(ep_id, state, mac) ==
    [ep_id |-> ep_id, state |-> state, mac |-> mac,
     ipv4_nets |-> {}, ipv6_nets |-> {},
     ipv4_gateway |-> None, ipv6_gateway |-> None]

\* What an operation that returns nothing, or raises, hands back.
NoEndpoint == Endpoint(<<>>, "", <<>>)

\* The endpoint with the prefix and the gateway always in the IPv4 fields.
AssembleEndpointV4(ep_id, ip, next_hop, mac) ==
    LET network == IPNet(ip, IF ip.version = 4 THEN 32 ELSE 128)
        ep == Endpoint(ep_id, "active", mac)
    IN  [ep EXCEPT !.ipv4_nets = @ \cup {network}, !.ipv4_gateway = next_hop]

\* Lines 209-217 of set_up_endpoint: the endpoint built from the results.
\* IPNetwork(IPAddress(ip)) is the address with its full-length prefix.
AssembleEndpoint(ep_id, ip, next_hop, mac) ==
    LET network == IPNet(ip, IF ip.version = 4 THEN 32 ELSE 128)
        ep == Endpoint(ep_id, "active", mac)
    IN  IF network.version = 4
        THEN [ep EXCEPT !.ipv4_nets = @ \cup {network}, !.ipv4_gateway = next_hop]
        ELSE [ep EXCEPT !.ipv6_nets = @ \cup {network}, !.ipv6_gateway = next_hop]

\* ------------------------------------------------------------------- Init
Frame0 == [op |-> "none", ip |-> None, cpid |-> 0, ep_id |-> <<>>,
           interface_name |-> <<>>, next_hop |-> None, saved |-> NoNs]

\* No operation has ended yet, or one is running.
NoResult == [status |-> "none", cmd |-> "none", cause |-> "none",
             value |-> NoEndpoint]

\* No direct add_ip_to_interface call is being followed.
NoSnapshot == [taken |-> FALSE, cpid |-> 0, ip |-> None,
               interface_name |-> <<>>, ifs |-> {}]

Configurations ==
    [in_container : BOOLEAN, proc_alias : ProcRoots,
     next_hop_ips : NextHopDicts, veth_name : VethNames]

\* in_container=True says that the process runs in a container's namespace,
\* not in the root namespace.
Boot ==
    /\ home \in {RootNs, AgentNs}
    /\ conf \in {c \in Configurations : c.in_container => home # RootNs}
    /\ cur = home
    /\ dir \in BOOLEAN
    /\ netns = {}
    /\ ifs = {}
    /\ routes = {}
    /\ npairs = 0
    /\ clock = [k \in 1..TsDigits |-> 0]
    /\ nuuid = 0
    /\ nops = 0
    /\ nenv = 0
    /\ pc = "idle"
    /\ frame = Frame0
    /\ log = <<>>
    /\ result = NoResult
    /\ returned = {}
    /\ snapshot = NoSnapshot

\* The module used from one thread.
Init == Boot /\ parked = <<>>

\* ---------------------------------------------------------------- helpers
\* How a command whose success in the host state is ok may end: "ok",
\* "state" (it fails in this host state) or "env" (it fails for a reason
\* outside the modelled state).
Outcomes(ok) ==
    IF ok THEN {"ok"} \cup (IF nenv < MaxEnvFailures THEN {"env"} ELSE {})
    ELSE {"state"}

\* subprocess runs cmd in the current namespace.
Issue(cmd, o) ==
    /\ log' = Append(log, [cmd |-> cmd, ns |-> cur, out |-> o])
    /\ nenv' = IF o = "env" THEN nenv + 1 ELSE nenv

\* The operation ends by raising.
Raise(status, cmd, cause) ==
    /\ pc' = "idle"
    /\ result' = [status |-> status, cmd |-> cmd, cause |-> cause,
                  value |-> NoEndpoint]

\* The operation ends by returning value.
Return(value) ==
    /\ pc' = "idle"
    /\ result' = [status |-> "ok", cmd |-> "none", cause |-> "none",
                  value |-> value]

CanCall == pc = "idle" /\ nops < MaxOps

\* with Namespace(pid, 'net', proc="/proc_host"): entering switches the
\* process to the namespace of /proc_host/<pid>/ns/net and remembers the
\* namespace it was in; a namespace that cannot be opened or entered raises
\* and nothing is switched.
NamespaceEnter(pid, next) ==
    \E o \in Outcomes(Resolve(SCOPE_PROC, pid) # NoNs) :
        /\ nenv' = IF o = "env" THEN nenv + 1 ELSE nenv
        /\ IF o = "ok"
           THEN /\ cur' = Resolve(SCOPE_PROC, pid)
                /\ frame' = [frame EXCEPT !.saved = cur]
                /\ pc' = next
                /\ UNCHANGED result
           ELSE /\ Raise("NamespaceError", "enter", o)
                /\ UNCHANGED <<cur, frame>>

\* Leaving the with block, normally or by an exception, switches back.
NamespaceExit == cur' = frame.saved

\* check_call(cmd) / check_output(cmd) outside a with block: effect is what
\* the command does to the host when it exits 0; a non-zero exit raises
\* CalledProcessError out of the operation.
CheckCall(cmd, ok, effect, next) ==
    \E o \in Outcomes(ok) :
        /\ Issue(cmd, o)
        /\ IF o = "ok"
           THEN effect /\ pc' = next /\ UNCHANGED result
           ELSE UNCHANGED host /\ Raise("CalledProcessError", cmd, o)
        /\ UNCHANGED <<home, conf, parked, snapshot, cur, clock, nuuid, nops, frame, returned>>

\* check_call(cmd) inside a with Namespace block: the exception leaves the
\* block, whose exit switches the namespace back; so does the end of the
\* block after its last command.
ScopedCheckCall(cmd, ok, effect, next, last) ==
    \E o \in Outcomes(ok) :
        /\ Issue(cmd, o)
        /\ IF o = "ok"
           THEN /\ effect /\ pc' = next /\ UNCHANGED result
                /\ IF last THEN NamespaceExit ELSE UNCHANGED cur
           ELSE /\ UNCHANGED host /\ Raise("CalledProcessError", cmd, o)
                /\ NamespaceExit
        /\ UNCHANGED <<home, conf, parked, snapshot, clock, nuuid, nops, frame, returned>>

\* -------------------------------------------------------- set_up_endpoint
\* Lines 136-142: the assertion, the new endpoint id and the two names.
set_up_endpoint(ip, cpid) ==
    /\ CanCall
    /\ nops' = nops + 1
    /\ log' = <<>>
    /\ IF ~ip.isIPAddress
       THEN /\ Raise("AssertionError", "none", "none")
            /\ frame' = [Frame0 EXCEPT !.op = "set_up_endpoint", !.ip = ip,
                                       !.cpid = cpid]
            /\ UNCHANGED <<clock, nuuid>>
       ELSE /\ nuuid < MaxEndpoints
            /\ \E ts \in Uuid1Timestamps(clock, nuuid) :
                /\ clock' = ts
                /\ frame' = [Frame0 EXCEPT !.op = "set_up_endpoint", !.ip = ip,
                                           !.cpid = cpid, !.ep_id = UuidHex(ts),
                                           !.interface_name = conf.veth_name]
            /\ nuuid' = nuuid + 1
            /\ pc' = "mkdir"
            /\ result' = NoResult
    /\ snapshot' = NoSnapshot
    /\ UNCHANGED <<home, conf, parked, cur, host, nenv, returned>>

iface == IfaceName(frame.ep_id)
iface_tmp == IfaceTmpName(frame.ep_id)

\* check_call("mkdir -p /var/run/netns")
mkdir ==
    /\ pc = "mkdir"
    /\ CheckCall("mkdir", TRUE,
                 dir' = TRUE /\ UNCHANGED <<netns, ifs, routes, npairs>>,
                 "ln_target")

\* check_call("ln -s /<proc_alias>/<cpid>/ns/net /var/run/netns/<cpid>")
ln_target ==
    /\ pc = "ln_target"
    /\ CheckCall("ln_target", LnOk(frame.cpid),
                 /\ netns' = Ln(conf.proc_alias, frame.cpid)
                 /\ UNCHANGED <<dir, ifs, routes, npairs>>,
                 IF conf.in_container THEN "ln_root" ELSE "ls")

\* ln_root without the try/except around it.
ln_root_checked ==
    /\ pc = "ln_root"
    /\ CheckCall("ln_root", LnOk(ROOT_NETNS),
                 /\ netns' = Ln(conf.proc_alias, ROOT_NETNS)
                 /\ UNCHANGED <<dir, ifs, routes, npairs>>,
                 "ls")

\* Lines 152-159: the link to the root namespace; CalledProcessError is
\* caught and passed over.
ln_root ==
    /\ pc = "ln_root"
    /\ \E o \in Outcomes(LnOk(ROOT_NETNS)) :
        /\ Issue("ln_root", o)
        /\ IF o = "ok"
           THEN /\ netns' = Ln(conf.proc_alias, ROOT_NETNS)
                /\ UNCHANGED <<dir, ifs, routes, npairs>>
           ELSE UNCHANGED host
    /\ pc' = "ls"
    /\ UNCHANGED <<home, conf, parked, snapshot, cur, clock, nuuid, nops, frame, result, returned>>

\* check_output("ls -l /var/run/netns")
ls ==
    /\ pc = "ls"
    /\ CheckCall("ls", dir, UNCHANGED host, "link_add")

\* link_add with the exit status dropped, as subprocess.call would.
link_add_unchecked ==
    /\ pc = "link_add"
    /\ \E o \in Outcomes(LinkAddOk(cur, iface, iface_tmp)) :
        /\ Issue("link_add", o)
        /\ IF o = "ok"
           THEN /\ ifs' = LinkAdd(cur, iface, iface_tmp)
                /\ npairs' = npairs + 1
                /\ UNCHANGED <<dir, netns, routes>>
           ELSE UNCHANGED host
    /\ pc' = "up_host"
    /\ UNCHANGED <<home, conf, parked, snapshot, cur, clock, nuuid, nops, frame, result, returned>>

\* check_call("ip link add <iface> type veth peer name <iface_tmp>")
link_add ==
    /\ pc = "link_add"
    /\ CheckCall("link_add", LinkAddOk(cur, iface, iface_tmp),
                 /\ ifs' = LinkAdd(cur, iface, iface_tmp)
                 /\ npairs' = npairs + 1
                 /\ UNCHANGED <<dir, netns, routes>>,
                 "up_host")

\* up_host naming the temporary peer instead of the host-side end.
up_host_wrong_end ==
    /\ pc = "up_host"
    /\ CheckCall("up_host", LinkUpOk(cur, iface_tmp),
                 ifs' = LinkUp(cur, iface_tmp) /\ UNCHANGED <<dir, netns, routes, npairs>>,
                 "move_peer")

\* check_call("ip link set <iface> up")
up_host ==
    /\ pc = "up_host"
    /\ CheckCall("up_host", LinkUpOk(cur, iface),
                 ifs' = LinkUp(cur, iface) /\ UNCHANGED <<dir, netns, routes, npairs>>,
                 "move_peer")

\* check_call("ip link set <iface_tmp> netns <cpid>")
move_peer ==
    /\ pc = "move_peer"
    /\ CheckCall("move_peer", LinkMoveOk(cur, iface_tmp, NetnsArg(frame.cpid)),
                 /\ ifs' = LinkMove(cur, iface_tmp, NetnsArg(frame.cpid))
                 /\ routes' = RoutesAfterMove(cur, iface_tmp, NetnsArg(frame.cpid))
                 /\ UNCHANGED <<dir, netns, npairs>>,
                 "ip_link")

\* ip_link followed by the address step, ahead of the rename.
ip_link_then_address ==
    /\ pc = "ip_link"
    /\ CheckCall("ip_link", TRUE, UNCHANGED host, "add_ip_enter")

\* check_output("ip link")
ip_link ==
    /\ pc = "ip_link"
    /\ CheckCall("ip_link", TRUE, UNCHANGED host, "enter_rename")

\* with Namespace(cpid, 'net', proc="/proc_host"), line 170
enter_rename ==
    /\ pc = "enter_rename"
    /\ NamespaceEnter(frame.cpid, "rename")
    /\ UNCHANGED <<home, conf, parked, snapshot, host, clock, nuuid, nops, log, returned>>

\* check_call("ip link set dev <iface_tmp> name <veth_name>")
rename ==
    /\ pc = "rename"
    /\ ScopedCheckCall("rename", LinkRenameOk(cur, iface_tmp, conf.veth_name),
                       /\ ifs' = LinkRename(cur, iface_tmp, conf.veth_name)
                       /\ UNCHANGED <<dir, netns, routes, npairs>>,
                       "up_peer", FALSE)

\* up_peer followed by the address step whatever in_container is.
up_peer_no_relocation ==
    /\ pc = "up_peer"
    /\ ScopedCheckCall("up_peer", LinkUpOk(cur, conf.veth_name),
                       /\ ifs' = LinkUp(cur, conf.veth_name)
                       /\ UNCHANGED <<dir, netns, routes, npairs>>,
                       "add_ip_enter", TRUE)

\* check_call("ip link set <veth_name> up"), the last command of the block;
\* line 178 then chooses the in_container steps.
up_peer ==
    /\ pc = "up_peer"
    /\ ScopedCheckCall("up_peer", LinkUpOk(cur, conf.veth_name),
                       /\ ifs' = LinkUp(cur, conf.veth_name)
                       /\ UNCHANGED <<dir, netns, routes, npairs>>,
                       IF conf.in_container THEN "move_host" ELSE "add_ip_enter",
                       TRUE)

\* check_call("ip link set <iface> netns 1"), in_container only
move_host ==
    /\ pc = "move_host"
    /\ CheckCall("move_host", LinkMoveOk(cur, iface, NetnsArg(ROOT_NETNS)),
                 /\ ifs' = LinkMove(cur, iface, NetnsArg(ROOT_NETNS))
                 /\ routes' = RoutesAfterMove(cur, iface, NetnsArg(ROOT_NETNS))
                 /\ UNCHANGED <<dir, netns, npairs>>,
                 "enter_root")

\* enter_root entering the container's namespace again.
enter_root_as_target ==
    /\ pc = "enter_root"
    /\ NamespaceEnter(frame.cpid, "up_host_root")
    /\ UNCHANGED <<home, conf, parked, snapshot, host, clock, nuuid, nops, log, returned>>

\* with Namespace(ROOT_NETNS, 'net', proc="/proc_host"), line 181
enter_root ==
    /\ pc = "enter_root"
    /\ NamespaceEnter(ROOT_NETNS, "up_host_root")
    /\ UNCHANGED <<home, conf, parked, snapshot, host, clock, nuuid, nops, log, returned>>

\* check_call("ip link set <iface> up") in the root namespace
up_host_root ==
    /\ pc = "up_host_root"
    /\ ScopedCheckCall("up_host_root", LinkUpOk(cur, iface),
                       /\ ifs' = LinkUp(cur, iface)
                       /\ UNCHANGED <<dir, netns, routes, npairs>>,
                       "add_ip_enter", TRUE)

\* ---------------------------------- add_ip_to_interface, as called and alone
add_ip_to_interface(container_pid, ip, interface_name) ==
    /\ CanCall
    /\ nops' = nops + 1
    /\ log' = <<>>
    /\ frame' = [Frame0 EXCEPT !.op = "add_ip_to_interface", !.ip = ip,
                               !.cpid = container_pid,
                               !.interface_name = interface_name]
    /\ pc' = "add_ip_enter"
    /\ snapshot' = [taken |-> TRUE, cpid |-> container_pid, ip |-> ip,
                    interface_name |-> interface_name, ifs |-> ifs]
    /\ result' = NoResult
    /\ UNCHANGED <<home, conf, parked, cur, host, clock, nuuid, nenv, returned>>

\* add_ip_enter with a failed entry passed over: the command follows in the
\* namespace the process is in.
add_ip_enter_passing ==
    /\ pc = "add_ip_enter"
    /\ \E o \in Outcomes(Resolve(SCOPE_PROC, frame.cpid) # NoNs) :
        /\ nenv' = IF o = "env" THEN nenv + 1 ELSE nenv
        /\ cur' = IF o = "ok" THEN Resolve(SCOPE_PROC, frame.cpid) ELSE cur
    /\ frame' = [frame EXCEPT !.saved = cur]
    /\ pc' = "addr_add"
    /\ UNCHANGED <<home, conf, parked, snapshot, host, clock, nuuid, nops, log, result, returned>>

\* with Namespace(container_pid, 'net', proc="/proc_host"), line 87
add_ip_enter ==
    /\ pc = "add_ip_enter"
    /\ NamespaceEnter(frame.cpid, "addr_add")
    /\ UNCHANGED <<home, conf, parked, snapshot, host, clock, nuuid, nops, log, returned>>

\* addr_add with the namespace entered by hand and switched back only after
\* a command that succeeded.
addr_add_no_restore ==
    /\ pc = "addr_add"
    /\ LET net == IPNet(frame.ip, PREFIX_LEN(frame.ip.version))
       IN  \E o \in Outcomes(AddrAddOk(cur, net, frame.interface_name)) :
            /\ Issue("addr_add", o)
            /\ IF o = "ok"
               THEN /\ NamespaceExit
                    /\ ifs' = AddrAdd(cur, net, frame.interface_name)
                    /\ UNCHANGED <<dir, netns, routes, npairs>>
                    /\ IF frame.op = "set_up_endpoint"
                       THEN pc' = "enter_routes" /\ UNCHANGED result
                       ELSE Return(NoEndpoint)
               ELSE /\ UNCHANGED <<cur, host>>
                    /\ Raise("CalledProcessError", "addr_add", o)
    /\ UNCHANGED <<home, conf, parked, snapshot, clock, nuuid, nops, frame, returned>>

\* check_call("ip -<version> addr add <ip>/<len> dev <interface_name>");
\* set_up_endpoint goes on at line 187, a direct call returns None.
addr_add ==
    /\ pc = "addr_add"
    /\ LET net == IPNet(frame.ip, PREFIX_LEN(frame.ip.version))
       IN  \E o \in Outcomes(AddrAddOk(cur, net, frame.interface_name)) :
            /\ Issue("addr_add", o)
            /\ NamespaceExit
            /\ IF o = "ok"
               THEN /\ ifs' = AddrAdd(cur, net, frame.interface_name)
                    /\ UNCHANGED <<dir, netns, routes, npairs>>
                    /\ IF frame.op = "set_up_endpoint"
                       THEN pc' = "enter_routes" /\ UNCHANGED result
                       ELSE Return(NoEndpoint)
               ELSE /\ UNCHANGED host
                    /\ Raise("CalledProcessError", "addr_add", o)
    /\ UNCHANGED <<home, conf, parked, snapshot, clock, nuuid, nops, frame, returned>>

\* ------------------------------------------------ remove_ip_from_interface
remove_ip_from_interface(container_pid, ip, interface_name) ==
    /\ CanCall
    /\ nops' = nops + 1
    /\ log' = <<>>
    /\ frame' = [Frame0 EXCEPT !.op = "remove_ip_from_interface", !.ip = ip,
                               !.cpid = container_pid,
                               !.interface_name = interface_name]
    /\ pc' = "del_ip_enter"
    /\ snapshot' = IF /\ snapshot.cpid = container_pid
                      /\ snapshot.ip = ip
                      /\ snapshot.interface_name = interface_name
                   THEN snapshot ELSE NoSnapshot
    /\ result' = NoResult
    /\ UNCHANGED <<home, conf, parked, cur, host, clock, nuuid, nenv, returned>>

\* with Namespace(container_pid, 'net', proc="/proc_host"), line 105
del_ip_enter ==
    /\ pc = "del_ip_enter"
    /\ NamespaceEnter(frame.cpid, "addr_del")
    /\ UNCHANGED <<home, conf, parked, snapshot, host, clock, nuuid, nops, log, returned>>

\* check_call("ip -<version> addr del <ip>/<len> dev <interface_name>")
addr_del ==
    /\ pc = "addr_del"
    /\ LET net == IPNet(frame.ip, PREFIX_LEN(frame.ip.version))
       IN  \E o \in Outcomes(AddrDelOk(cur, net, frame.interface_name)) :
            /\ Issue("addr_del", o)
            /\ NamespaceExit
            /\ IF o = "ok"
               THEN /\ ifs' = AddrDel(cur, net, frame.interface_name)
                    /\ UNCHANGED <<dir, netns, routes, npairs>>
                    /\ Return(NoEndpoint)
               ELSE /\ UNCHANGED host
                    /\ Raise("CalledProcessError", "addr_del", o)
    /\ UNCHANGED <<home, conf, parked, snapshot, clock, nuuid, nops, frame, returned>>

\* ------------------------------------------- set_up_endpoint, lines 187-217
\* next_hop = next_hop_ips[ip.version], a KeyError when the dictionary has
\* no such version; then with Namespace(cpid, 'net', proc="/proc_host").
enter_routes ==
    /\ pc = "enter_routes"
    /\ IF frame.ip.version \notin DOMAIN conf.next_hop_ips
       THEN /\ Raise("KeyError", "none", "none")
            /\ UNCHANGED <<cur, frame, nenv>>
       ELSE \E o \in Outcomes(Resolve(SCOPE_PROC, frame.cpid) # NoNs) :
            /\ nenv' = IF o = "env" THEN nenv + 1 ELSE nenv
            /\ IF o = "ok"
               THEN /\ cur' = Resolve(SCOPE_PROC, frame.cpid)
                    /\ frame' = [frame EXCEPT
                                   !.saved = cur,
                                   !.next_hop = conf.next_hop_ips[frame.ip.version]]
                    /\ pc' = "route_hop"
                    /\ UNCHANGED result
               ELSE /\ Raise("NamespaceError", "enter", o)
                    /\ UNCHANGED <<cur, frame>>
    /\ UNCHANGED <<home, conf, parked, snapshot, host, clock, nuuid, nops, log, returned>>

\* check_call("ip -<version> route replace <next_hop> dev <veth_name>")
route_hop ==
    /\ pc = "route_hop"
    /\ ScopedCheckCall("route_hop",
                       RouteReplaceOk(cur, frame.next_hop.addr, "", conf.veth_name),
                       /\ routes' = RouteReplace(cur, frame.ip.version,
                                                 frame.next_hop.addr, "",
                                                 conf.veth_name)
                       /\ UNCHANGED <<dir, netns, ifs, npairs>>,
                       "route_default", FALSE)

\* check_call("ip -<version> route replace default via <next_hop> dev
\* <veth_name>")
route_default ==
    /\ pc = "route_default"
    /\ ScopedCheckCall("route_default",
                       RouteReplaceOk(cur, "default", frame.next_hop.addr,
                                      conf.veth_name),
                       /\ routes' = RouteReplace(cur, frame.ip.version, "default",
                                                 frame.next_hop.addr,
                                                 conf.veth_name)
                       /\ UNCHANGED <<dir, netns, ifs, npairs>>,
                       "show_mac", FALSE)

\* show_mac with the namespace entered by hand and never switched back.
show_mac_no_exit ==
    /\ pc = "show_mac"
    /\ \E o \in Outcomes(TRUE) :
        /\ Issue("show_mac", o)
        /\ IF o = "ok"
           THEN LET ep == AssembleEndpoint(frame.ep_id, frame.ip, frame.next_hop,
                                           LinkShowEther(cur, conf.veth_name))
                IN  /\ Return(ep)
                    /\ returned' = returned \cup {ep.ep_id}
           ELSE /\ Raise("CalledProcessError", "show_mac", o)
                /\ UNCHANGED returned
    /\ UNCHANGED <<home, conf, parked, snapshot, cur, host, clock, nuuid, nops, frame>>

\* mac = check_output("ip link show <veth_name> | grep ether | awk ..."),
\* the end of the block, and the endpoint built and returned.
show_mac ==
    /\ pc = "show_mac"
    /\ \E o \in Outcomes(TRUE) :
        /\ Issue("show_mac", o)
        /\ NamespaceExit
        /\ IF o = "ok"
           THEN LET ep == AssembleEndpoint(frame.ep_id, frame.ip, frame.next_hop,
                                           LinkShowEther(cur, conf.veth_name))
                IN  /\ Return(ep)
                    /\ returned' = returned \cup {ep.ep_id}
           ELSE /\ Raise("CalledProcessError", "show_mac", o)
                /\ UNCHANGED returned
    /\ UNCHANGED <<home, conf, parked, snapshot, host, clock, nuuid, nops, frame>>

\* --------------------------------------------------------- remove_endpoint
\* call("ip link delete <iface>"): the exit status is returned by call and
\* dropped; remove_endpoint returns None whatever it was.
remove_endpoint(ep_id) ==
    /\ CanCall
    /\ nops' = nops + 1
    /\ frame' = [Frame0 EXCEPT !.op = "remove_endpoint", !.ep_id = ep_id]
    /\ \E o \in Outcomes(LinkDeleteOk(cur, IfaceName(ep_id))) :
        /\ log' = <<[cmd |-> "link_delete", ns |-> cur, out |-> o]>>
        /\ nenv' = IF o = "env" THEN nenv + 1 ELSE nenv
        /\ IF o = "ok"
           THEN /\ ifs' = LinkDelete(cur, IfaceName(ep_id))
                /\ routes' = RoutesAfterDelete(cur, IfaceName(ep_id))
           ELSE UNCHANGED <<ifs, routes>>
    /\ Return(NoEndpoint)
    /\ snapshot' = NoSnapshot
    /\ UNCHANGED <<home, conf, parked, cur, dir, netns, npairs, clock, nuuid, returned>>

\* -------------------------------------------------- ensure_namespace_named
\* ensure_namespace_named without the os.path.islink test.
ensure_namespace_named_unguarded(container_pid) ==
    /\ CanCall
    /\ nops' = nops + 1
    /\ frame' = [Frame0 EXCEPT !.op = "ensure_namespace_named",
                               !.cpid = container_pid]
    /\ \E o \in Outcomes(LnOk(container_pid)) :
        /\ log' = <<[cmd |-> "ln_named", ns |-> cur, out |-> o]>>
        /\ nenv' = IF o = "env" THEN nenv + 1 ELSE nenv
        /\ IF o = "ok"
           THEN netns' = Ln(NAMED_PROC, container_pid) /\ Return(NoEndpoint)
           ELSE UNCHANGED netns /\ Raise("CalledProcessError", "ln_named", o)
    /\ snapshot' = NoSnapshot
    /\ UNCHANGED <<home, conf, parked, cur, dir, ifs, routes, npairs, clock, nuuid, returned>>

\* Lines 227-230: the link is made only when os.path.islink finds none.
ensure_namespace_named(container_pid) ==
    /\ CanCall
    /\ nops' = nops + 1
    /\ frame' = [Frame0 EXCEPT !.op = "ensure_namespace_named",
                               !.cpid = container_pid]
    /\ IF ~IsLink(container_pid)
       THEN \E o \in Outcomes(LnOk(container_pid)) :
            /\ log' = <<[cmd |-> "ln_named", ns |-> cur, out |-> o]>>
            /\ nenv' = IF o = "env" THEN nenv + 1 ELSE nenv
            /\ IF o = "ok"
               THEN netns' = Ln(NAMED_PROC, container_pid) /\ Return(NoEndpoint)
               ELSE UNCHANGED netns /\ Raise("CalledProcessError", "ln_named", o)
       ELSE /\ log' = <<>>
            /\ Return(NoEndpoint)
            /\ UNCHANGED <<netns, nenv>>
    /\ snapshot' = NoSnapshot
    /\ UNCHANGED <<home, conf, parked, cur, dir, ifs, routes, npairs, clock, nuuid, returned>>

\* ------------------------------------------------------------------- Next
\* The caller removes endpoints it was given by set_up_endpoint.
call_remove_endpoint == \E e \in returned : remove_endpoint(e)

Next ==
    \/ \E ip \in IpInputs, cpid \in ContainerPids : set_up_endpoint(ip, cpid)
    \/ mkdir
    \/ ln_target
    \/ ln_root
    \/ ls
    \/ link_add
    \/ up_host
    \/ move_peer
    \/ ip_link
    \/ enter_rename
    \/ rename
    \/ up_peer
    \/ move_host
    \/ enter_root
    \/ up_host_root
    \/ \E p \in ContainerPids, ip \in Addresses, n \in VethNames :
          add_ip_to_interface(p, ip, n)
    \/ add_ip_enter
    \/ addr_add
    \/ \E p \in ContainerPids, ip \in Addresses, n \in VethNames :
          remove_ip_from_interface(p, ip, n)
    \/ del_ip_enter
    \/ addr_del
    \/ enter_routes
    \/ route_hop
    \/ route_default
    \/ show_mac
    \/ call_remove_endpoint
    \/ \E p \in ContainerPids : ensure_namespace_named(p)

Spec == Init /\ [][Next]_vars

\* ---------------------------------------------------------------- threads
\* Two threads of the process, each calling one operation for a container of
\* its own.  pc, frame, log and result are those of the thread that runs;
\* parked holds them for the other.  Where setns is process-wide all threads
\* are in the namespace cur; where it is per thread, cur is the namespace of
\* the thread that runs and the parked thread keeps its own.
Threads == {1, 2}
Running == CHOOSE t \in Threads : t # parked[1].tid
TargetOf(t) == CHOOSE p \in ContainerPids : p = t + 1

\* A thread that has not called yet; ns is NoNs where setns is process-wide.
Parked0(t, ns) ==
    [tid |-> t, pc |-> "idle", frame |-> Frame0, log |-> <<>>,
     result |-> NoResult, ns |-> ns]

InitThreads == Boot /\ parked \in {<<Parked0(2, ns)>> : ns \in {NoNs, home}}

\* The scheduler takes the processor from the running thread and gives it
\* to the parked one.
switch ==
    /\ parked # <<>>
    /\ LET other == parked[1]
       IN  /\ pc' = other.pc
           /\ frame' = other.frame
           /\ log' = other.log
           /\ result' = other.result
           /\ cur' = IF other.ns = NoNs THEN cur ELSE other.ns
           /\ parked' = <<[tid |-> Running, pc |-> pc, frame |-> frame,
                           log |-> log, result |-> result,
                           ns |-> IF other.ns = NoNs THEN NoNs ELSE cur]>>
    /\ UNCHANGED <<home, conf, snapshot, host, clock, nuuid, nops, nenv, returned>>

\* The caller's mutex around every operation: the running thread holds it
\* from the call to the return, so another thread gets to run an operation
\* only between operations.
switch_serialized == pc = "idle" /\ switch

NotCalledYet == frame.op = "none"

thread_set_up_endpoint ==
    /\ NotCalledYet
    /\ \E ip \in Addresses : set_up_endpoint(ip, TargetOf(Running))

thread_add_ip_to_interface ==
    /\ NotCalledYet
    /\ \E ip \in Addresses : add_ip_to_interface(TargetOf(Running), ip, VETH_NAME)

thread_remove_ip_from_interface ==
    /\ NotCalledYet
    /\ \E ip \in Addresses :
          remove_ip_from_interface(TargetOf(Running), ip, VETH_NAME)

\* The steps of the operation the running thread is in.
Step ==
    \/ mkdir
    \/ ln_target
    \/ ln_root
    \/ ls
    \/ link_add
    \/ up_host
    \/ move_peer
    \/ ip_link
    \/ enter_rename
    \/ rename
    \/ up_peer
    \/ move_host
    \/ enter_root
    \/ up_host_root
    \/ add_ip_enter
    \/ addr_add
    \/ del_ip_enter
    \/ addr_del
    \/ enter_routes
    \/ route_hop
    \/ route_default
    \/ show_mac

ThreadCall ==
    \/ thread_set_up_endpoint
    \/ thread_add_ip_to_interface
    \/ thread_remove_ip_from_interface

NextSerialized == ThreadCall \/ Step \/ switch_serialized
NextUnserialized == ThreadCall \/ Step \/ switch

SpecSerialized == InitThreads /\ [][NextSerialized]_vars
SpecUnserialized == InitThreads /\ [][NextUnserialized]_vars

\* ================================================================= claims
LastOp(op) == pc = "idle" /\ frame.op = op
FullNet(ip) == IPNet(ip, IF ip.version = 4 THEN 32 ELSE 128)
Failed(k) == log[k].out # "ok"

\* C1: remove_endpoint(ep_id) called when the host-side interface derived
\* from ep_id is absent raises a command failure to the caller.
C1_RemoveAbsentRaises ==
    (LastOp("remove_endpoint") /\ log[1].out = "state")
        => result.status = "CalledProcessError"

\* C2: after a successful set_up_endpoint returned the endpoint E, in either
\* setting of in_container, remove_endpoint(E) whose delete command meets no
\* outside failure leaves no interface of E's host-side name in any
\* namespace.
C2_RemoveDeletesInterface ==
    (LastOp("remove_endpoint") /\ frame.ep_id \in returned /\ log[1].out # "env")
        => \A i \in ifs : i.name # IfaceName(frame.ep_id)

\* C3: set_up_endpoint for a pid whose registry link already exists does not
\* fail at the link step because of the existing link.
C3_ExistingLinkTolerated ==
    ~(/\ LastOp("set_up_endpoint")
      /\ result.status = "CalledProcessError"
      /\ result.cmd = "ln_target"
      /\ result.cause = "state")

\* C4: in set_up_endpoint a failed command other than the root-namespace
\* link creation is the last command the call issues and the call ends
\* raising that command's failure; the step that raises changes nothing of
\* what earlier steps left on the host.
C4_FailureEnds ==
    frame.op = "set_up_endpoint" =>
        \A k \in 1..Len(log) :
            (Failed(k) /\ log[k].cmd # "ln_root") =>
                /\ k = Len(log)
                /\ pc = "idle"
                /\ result.status = "CalledProcessError"
                /\ result.cmd = log[k].cmd
C4_NoRollback ==
    (frame.op = "set_up_endpoint" /\ pc # "idle" /\ pc' = "idle"
        /\ result'.status # "ok") => UNCHANGED host
C5_NamespaceRestored == pc = "idle" => cur = home
C5_Witness ==
    /\ pc = "idle"
    /\ frame.op \in {"set_up_endpoint", "add_ip_to_interface",
                     "remove_ip_from_interface"}
    /\ result.status = "CalledProcessError"
    /\ result.cmd \in {"rename", "addr_add", "addr_del", "route_hop"}
    /\ log[Len(log)].ns # home

\* C6: a set_up_endpoint call that ends with a precondition failure (the
\* ip is no IPAddress, or next_hop_ips has no entry for its version) has
\* issued no command.
C6_PreconditionBeforeCommands ==
    (LastOp("set_up_endpoint") /\ result.status \in {"AssertionError", "KeyError"})
        => log = <<>>

\* C7: the identifier generated by a set_up_endpoint call and the host-side
\* interface name derived from it differ from those of every endpoint
\* returned before.
C7_IdsAndNamesDistinct ==
    (frame.op = "set_up_endpoint" /\ pc = "mkdir") =>
        \A e \in returned :
            e # frame.ep_id /\ IfaceName(e) # IfaceName(frame.ep_id)

\* C8: a successful set_up_endpoint with in_container=False leaves the
\* container-side interface in the target namespace under veth_name, up,
\* with the address, the route to the next hop and the default route via
\* it; the host-side interface up in the calling namespace; no interface of
\* the temporary name; and returns an active endpoint with exactly that
\* prefix, the next hop as gateway and the container-side hardware address.
C8_NonContainerResult ==
    (LastOp("set_up_endpoint") /\ result.status = "ok" /\ ~conf.in_container) =>
        LET ep == result.value
            t == Resolve(SCOPE_PROC, frame.cpid)
            v == frame.ip.version
            nh == conf.next_hop_ips[v]
        IN  /\ \E c \in ifs : /\ c.ns = t /\ c.name = conf.veth_name /\ c.up
                              /\ FullNet(frame.ip) \in c.addrs
                              /\ ep.mac = c.mac
            /\ [ns |-> t, version |-> v, dst |-> nh.addr, via |-> "",
                dev |-> conf.veth_name] \in routes
            /\ [ns |-> t, version |-> v, dst |-> "default", via |-> nh.addr,
                dev |-> conf.veth_name] \in routes
            /\ \E h \in ifs : h.ns = home /\ h.name = IfaceName(ep.ep_id) /\ h.up
            /\ \A i \in ifs : i.name # IfaceTmpName(ep.ep_id)
            /\ ep.state = "active"
            /\ ep.ep_id = frame.ep_id
            /\ IF v = 4 THEN ep.ipv4_nets = {FullNet(frame.ip)} /\ ep.ipv4_gateway = nh
                        ELSE ep.ipv6_nets = {FullNet(frame.ip)} /\ ep.ipv6_gateway = nh
C8_Witness ==
    /\ LastOp("set_up_endpoint") /\ result.status = "ok" /\ ~conf.in_container
    /\ frame.ip = IP4
    /\ home # RootNs
    /\ result.value.mac # <<>>

\* C9: a successful set_up_endpoint with in_container=True leaves the
\* host-side interface up in the root namespace and not in the calling one,
\* having issued every command of the in_container=False sequence in its
\* order; with in_container=False no root-namespace link is made, no
\* command of the root-namespace steps is issued and the host-side
\* interface stays in the calling namespace.
ContainerOnly == {"ln_root", "move_host", "up_host_root"}
IsCommonCmd(e) == e.cmd \notin ContainerOnly
CommonSequence ==
    <<"mkdir", "ln_target", "ls", "link_add", "up_host", "move_peer", "ip_link",
      "rename", "up_peer", "addr_add", "route_hop", "route_default", "show_mac">>
C9_HostSideRelocation ==
    /\ (LastOp("set_up_endpoint") /\ result.status = "ok" /\ conf.in_container) =>
          /\ \E h \in ifs : h.name = iface /\ h.ns = RootNs /\ h.up
          /\ \A i \in ifs : i.name = iface => i.ns # home
          /\ LET common == SelectSeq(log, IsCommonCmd)
             IN  /\ Len(common) = Len(CommonSequence)
                 /\ \A k \in 1..Len(common) :
                       common[k].cmd = CommonSequence[k] /\ common[k].out = "ok"
    /\ (frame.op = "set_up_endpoint" /\ ~conf.in_container) =>
          /\ \A k \in 1..Len(log) : log[k].cmd \notin ContainerOnly
          /\ \A i \in ifs : i.name = iface => i.ns = home
          /\ \A l \in netns : l.name # ROOT_NETNS
C9_Witness ==
    /\ LastOp("set_up_endpoint") /\ result.status = "ok" /\ conf.in_container
    /\ \E h \in ifs : h.name = iface /\ h.ns = RootNs /\ h.up
    /\ \E k \in 1..Len(log) : log[k].cmd = "up_host_root" /\ log[k].ns = RootNs

\* C10: ensure_namespace_named(pid) called when the registry already holds
\* a link for pid (as after an earlier call) issues no command, raises
\* nothing and leaves the registry as it is; after every successful call
\* the registry holds exactly one link for pid.
C10_OneLink ==
    (LastOp("ensure_namespace_named") /\ result.status = "ok")
        => Cardinality({l \in netns : l.name = frame.cpid}) = 1
C10_SecondCall ==
    (/\ nops' = nops + 1
     /\ frame'.op = "ensure_namespace_named"
     /\ IsLink(frame'.cpid))
        => (log' = <<>> /\ result'.status = "ok" /\ netns' = netns)
\* C10 as one formula: one link after every successful call (in every
\* state), no command and no error when the link is there (in every step).
C10_EnsureIdempotent == [] C10_OneLink /\ [][C10_SecondCall]_vars
C10_Witness ==
    /\ LastOp("ensure_namespace_named")
    /\ result.status = "ok"
    /\ log = <<>>
    /\ \E l \in netns : l.name = frame.cpid /\ l.target[1] = NAMED_PROC

\* The addresses the interface dev of the namespace ns has among the
\* interfaces set.
AddrsOf(set, ns, dev) ==
    UNION {i.addrs : i \in {j \in set : j.ns = ns /\ j.name = dev}}

\* A direct add_ip_to_interface call was followed by a remove_ip_from_interface
\* call of the same arguments, which returned, and the interface did not have
\* the address when add_ip_to_interface was called.
AddedThenRemoved ==
    /\ LastOp("remove_ip_from_interface")
    /\ result.status = "ok"
    /\ snapshot.taken
    /\ FullNet(snapshot.ip) \notin
          AddrsOf(snapshot.ifs, HostView(snapshot.cpid), snapshot.interface_name)

\* C11: for addresses of version 4 and of version 6, add_ip_to_interface
\* followed by remove_ip_from_interface with the same namespace, address and
\* interface leaves the interface with the address set it had before the
\* add, whatever that set was, as long as it did not contain the address.
C11_AddThenRemoveRestores ==
    AddedThenRemoved =>
        /\ AddrsOf(ifs, HostView(snapshot.cpid), snapshot.interface_name)
             = AddrsOf(snapshot.ifs, HostView(snapshot.cpid),
                       snapshot.interface_name)
        /\ ifs = snapshot.ifs

\* The round trip on an interface that had an address of the other version.
C11_Witness ==
    /\ AddedThenRemoved
    /\ \E a \in AddrsOf(snapshot.ifs, HostView(snapshot.cpid),
                         snapshot.interface_name) :
           a.version # snapshot.ip.version

FullLength(net) == net.len = (IF net.version = 4 THEN 32 ELSE 128)

\* C12: every address that add_ip_to_interface, remove_ip_from_interface and
\* set_up_endpoint add or remove, and every prefix of a returned endpoint, has
\* the prefix length 32 when it is IPv4 and 128 when it is IPv6.
C12_FullLengthPrefixes ==
    /\ \A i \in ifs : \A a \in i.addrs : FullLength(a)
    /\ \A n \in result.value.ipv4_nets : n.version = 4 /\ n.len = 32
    /\ \A n \in result.value.ipv6_nets : n.version = 6 /\ n.len = 128
    /\ (LastOp("add_ip_to_interface") /\ result.status = "ok")
        => FullNet(frame.ip) \in
             AddrsOf(ifs, HostView(frame.cpid), frame.interface_name)
    /\ (LastOp("remove_ip_from_interface") /\ result.status = "ok")
        => FullNet(frame.ip) \notin
             AddrsOf(ifs, HostView(frame.cpid), frame.interface_name)
    /\ (LastOp("set_up_endpoint") /\ result.status = "ok")
        => FullNet(frame.ip) \in
             AddrsOf(ifs, HostView(frame.cpid), frame.interface_name)

\* An IPv4 address was removed from an interface that set_up_endpoint gave
\* an IPv6 address.
C12_Witness ==
    /\ LastOp("remove_ip_from_interface")
    /\ result.status = "ok"
    /\ frame.ip.version = 4
    /\ returned # {}
    /\ \E a \in AddrsOf(ifs, HostView(frame.cpid), frame.interface_name) :
           a.version = 6 /\ a.len = 128

\* The commands of a set_up_endpoint call that runs to its end.
ExpectedSequence ==
    IF conf.in_container
    THEN <<"mkdir", "ln_target", "ln_root", "ls", "link_add", "up_host",
           "move_peer", "ip_link", "rename", "up_peer", "move_host",
           "up_host_root", "addr_add", "route_hop", "route_default", "show_mac">>
    ELSE CommonSequence

C14_ReturnedEndpoint ==
    (LastOp("set_up_endpoint") /\ result.status = "ok") =>
        LET ep == result.value
        IN  /\ ep.state = "active"
            /\ ep.ep_id = UuidHex(clock)
            /\ ep.ep_id = frame.ep_id
            /\ frame.ip.version \in {4, 6}
            /\ frame.ip.version = 4 =>
                  /\ ep.ipv4_nets = {[addr |-> frame.ip.addr, version |-> 4,
                                      len |-> 32]}
                  /\ ep.ipv4_gateway = conf.next_hop_ips[4]
                  /\ ep.ipv6_nets = {}
                  /\ ep.ipv6_gateway = None
            /\ frame.ip.version = 6 =>
                  /\ ep.ipv6_nets = {[addr |-> frame.ip.addr, version |-> 6,
                                      len |-> 128]}
                  /\ ep.ipv6_gateway = conf.next_hop_ips[6]
                  /\ ep.ipv4_nets = {}
                  /\ ep.ipv4_gateway = None

\* An endpoint returned for an IPv6 address.
C14_Witness ==
    /\ LastOp("set_up_endpoint")
    /\ result.status = "ok"
    /\ frame.ip.version = 6
    /\ result.value.ipv6_gateway = NH6
    /\ result.value.ipv4_nets = {}

\* The two listings set_up_endpoint makes for its debug log.
IsProvisioningCmd(e) == e.cmd \notin {"ls", "ip_link"}
ProvisioningOrder == SelectSeq([k \in 1..Len(ExpectedSequence) |->
                                  [cmd |-> ExpectedSequence[k]]],
                               IsProvisioningCmd)

\* The step that puts the interface a command names, under that name, in
\* the namespace where the command runs.
PlacedBy ==
    [c \in {"up_host", "move_peer", "rename", "up_peer", "move_host",
            "up_host_root", "addr_add", "route_hop", "route_default",
            "show_mac"} |->
        CASE c \in {"up_host", "move_peer", "move_host"} -> "link_add"
          [] c = "rename" -> "move_peer"
          [] c = "up_host_root" -> "move_host"
          [] OTHER -> "rename"]

\* The namespace "ip link set X netns <pid>" relocates into is the one that
\* with Namespace(pid, ...) enters.
RelocatesIntoScope(pid) == NetnsArg(pid) = Resolve(SCOPE_PROC, pid)

\* The interface the command at pc names is in the current namespace; for
\* the first command of a scope, as far as the relocation before it went
\* into the namespace of that scope.
NamedInterfacePresent ==
    /\ pc \in {"up_host", "move_host"} => HasIf(cur, iface)
    /\ pc = "move_peer" => HasIf(cur, iface_tmp)
    /\ (pc = "rename" /\ RelocatesIntoScope(frame.cpid))
          => HasIf(cur, iface_tmp)
    /\ (pc = "up_host_root" /\ RelocatesIntoScope(ROOT_NETNS))
          => HasIf(cur, iface)
    /\ pc \in {"up_peer", "addr_add", "route_hop", "route_default", "show_mac"}
          => HasIf(cur, conf.veth_name)

\* C15: the commands of every set_up_endpoint call follow the one order
\* registry directory, target link, (root link), veth pair, host-side up,
\* peer relocation, peer rename, container-side up, (host-side relocation,
\* up in the root namespace), address, route to the next hop, default route,
\* hardware-address query; a command that names an interface comes after the
\* step that puts the interface there has succeeded, and finds it there.
C15_StrictOrder ==
    frame.op = "set_up_endpoint" =>
        /\ LET issued == SelectSeq(log, IsProvisioningCmd)
           IN  /\ Len(issued) <= Len(ProvisioningOrder)
               /\ \A k \in 1..Len(issued) :
                     issued[k].cmd = ProvisioningOrder[k].cmd
        /\ \A k \in 1..Len(log) :
              log[k].cmd \in DOMAIN PlacedBy =>
                 \E j \in 1..(k - 1) :
                    log[j].cmd = PlacedBy[log[k].cmd] /\ log[j].out = "ok"
        /\ NamedInterfacePresent

\* A call in a container that has issued its last command.
C15_Witness ==
    /\ LastOp("set_up_endpoint")
    /\ conf.in_container
    /\ Len(SelectSeq(log, IsProvisioningCmd)) = Len(ProvisioningOrder)
    /\ log[Len(log)].cmd = "show_mac"

\* The namespace an operation means a command to run in.
IntendedNs(cmd, cpid) ==
    CASE cmd \in {"rename", "up_peer", "addr_add", "addr_del", "route_hop",
                  "route_default", "show_mac"} -> HostView(cpid)
      [] cmd = "up_host_root" -> RootNs
      [] OTHER -> home

\* Positions of set_up_endpoint outside every with block.
Unscoped ==
    {"idle", "mkdir", "ln_target", "ln_root", "ls", "link_add", "up_host",
     "move_peer", "ip_link", "enter_rename", "move_host", "enter_root",
     "add_ip_enter", "enter_routes"}

\* C16: used from one thread, set_up_endpoint issues the peer rename, the
\* container-side up, the address add, both route replaces and the
\* hardware-address query in the namespace of cpid, the second host-side up
\* in the root namespace, and every other command, among them the veth
\* creation, the first host-side up and both relocations, in the namespace
\* the caller was in; outside the with blocks the process is in that
\* namespace.
C16_IntendedNamespace ==
    frame.op = "set_up_endpoint" =>
        /\ \A k \in 1..Len(log) :
              log[k].ns = IntendedNs(log[k].cmd, frame.cpid)
        /\ pc \in Unscoped => cur = home
        /\ pc \in {"rename", "up_peer", "addr_add", "route_hop",
                   "route_default", "show_mac"} => cur = HostView(frame.cpid)
        /\ pc = "up_host_root" => cur = RootNs

\* A call in a container whose commands ran in three namespaces.
C16_Witness ==
    /\ LastOp("set_up_endpoint")
    /\ result.status = "ok"
    /\ \E k \in 1..Len(log) : log[k].cmd = "move_host" /\ log[k].ns = AgentNs
    /\ \E k \in 1..Len(log) : log[k].cmd = "up_host_root" /\ log[k].ns = RootNs
    /\ \E k \in 1..Len(log) :
          log[k].cmd = "addr_add" /\ log[k].ns = HostView(frame.cpid)

\* The positions at which a with Namespace block is entered, and the pid
\* whose namespace it is.
EnterPositions ==
    {"enter_rename", "enter_root", "add_ip_enter", "del_ip_enter", "enter_routes"}
ScopePid == IF pc = "enter_root" THEN ROOT_NETNS ELSE frame.cpid

\* A step at such a position enters the namespace, or ends the operation
\* with nothing issued, nothing changed on the host and the process where it
\* was, in the namespace it started in.
EnterStep ==
    pc \in EnterPositions =>
        \/ /\ cur' = Resolve(SCOPE_PROC, ScopePid)
           /\ frame'.saved = cur
           /\ pc' # "idle"
           /\ log' = log
        \/ /\ pc' = "idle"
           /\ result'.status \in {"NamespaceError", "KeyError"}
           /\ result'.status = "KeyError" => pc = "enter_routes"
           /\ log' = log
           /\ cur' = cur /\ cur = home
           /\ UNCHANGED host

\* An operation that ended with the namespace failure.
EnterFailed == pc = "idle" /\ result.status = "NamespaceError"

\* C17: when a namespace cannot be entered no command of that scope is
\* issued in any namespace, add_ip_to_interface, remove_ip_from_interface or
\* set_up_endpoint ends with the failure, and the process is in the namespace
\* it was in.
C17_EnterFailurePropagates ==
    /\ [](EnterFailed =>
            /\ cur = home
            /\ frame.op \in {"set_up_endpoint", "add_ip_to_interface",
                              "remove_ip_from_interface"}
            /\ result.cmd = "enter"
            /\ \A k \in 1..Len(log) : log[k].out = "ok" \/ log[k].cmd = "ln_root"
            /\ frame.op # "set_up_endpoint" => log = <<>>)
    /\ [][EnterStep]_vars

\* set_up_endpoint ended by a namespace failure after commands of its own.
C17_Witness ==
    /\ EnterFailed
    /\ frame.op = "set_up_endpoint"
    /\ Len(log) > 0
    /\ log[Len(log)].cmd = "ip_link"

\* C18: whatever proc_alias is, the registry links made by set_up_endpoint
\* and by ensure_namespace_named name, for a pid, the namespace that the
\* scopes of set_up_endpoint, add_ip_to_interface and
\* remove_ip_from_interface enter for that pid, so that the first command of
\* the scope finds the peer that was relocated by the registry name.
C18_OneNamespacePerPid ==
    /\ \A l \in netns :
          Resolve(l.target[1], l.target[2]) = Resolve(SCOPE_PROC, l.name)
    /\ pc = "rename" => HasIf(cur, iface_tmp)

\* Every command in the log l of an operation on cpid was issued in the
\* namespace the operation means it to run in.
IssuedWhereMeant(l, cpid) ==
    \A k \in 1..Len(l) : l[k].ns = IntendedNs(l[k].cmd, cpid)

\* Both threads have called and are back from their operations.
BothDone ==
    /\ parked # <<>>
    /\ pc = "idle" /\ frame.op # "none"
    /\ parked[1].pc = "idle" /\ parked[1].frame.op # "none"

\* Every command of both threads was issued in the namespace its own
\* operation means it to run in, and when both are done the process (where
\* setns is per thread: each thread) is in the namespace it started in.
ThreadsKeepNamespaces ==
    parked # <<>> =>
        /\ IssuedWhereMeant(log, frame.cpid)
        /\ IssuedWhereMeant(parked[1].log, parked[1].frame.cpid)
        /\ BothDone => (cur = home /\ parked[1].ns \in {NoNs, home})

\* The same where setns is process-wide, as the spec takes it to be.
ProcessWideThreadsKeepNamespaces ==
    (parked # <<>> /\ parked[1].ns = NoNs) => ThreadsKeepNamespaces

\* C19: two threads of the process run one operation each, on different
\* containers; when a mutex of the caller lets one operation run at a time,
\* every command is issued in the namespace its own operation means it to
\* run in, and between operations and at the end the process is in the
\* namespace it started in.
C19_SerializedThreads ==
    /\ ThreadsKeepNamespaces
    /\ parked # <<>> =>
          /\ frame.cpid # parked[1].frame.cpid \/ frame.op = "none"
          /\ pc = "idle" => cur = home
          /\ parked[1].pc = "idle"
          /\ parked[1].ns \in {NoNs, home}

\* Both threads are done, with commands issued in both containers' namespaces
\* under the process-wide setns.
C19_Witness ==
    /\ BothDone
    /\ parked[1].ns = NoNs
    /\ \E k \in 1..Len(log) : log[k].ns = HostView(frame.cpid)
    /\ \E k \in 1..Len(parked[1].log) :
          parked[1].log[k].ns = HostView(parked[1].frame.cpid)
    /\ frame.op = "set_up_endpoint" /\ result.status = "ok"

====
